---- MODULE Spec2Model ----
(***************************************************************************)
(* PV switcher (control.py): the main loop that reads two power meters,    *)
(* scales a threshold by the day of the year, asks an optional weather     *)
(* gate and switches a relay, together with its shutdown handler.          *)
(*                                                                         *)
(* Conventions                                                             *)
(*  - floats of the scaling file are held in thousandths (1.5 -> 1500);    *)
(*  - a Python value that may be an int or a str is a record               *)
(*    [type, val];                                                         *)
(*  - calendar dates are day numbers 1..MaxDay; the run starts on day 1,   *)
(*    which is also day 1 of the year (tm_yday = 1);                       *)
(*  - the names assigned in the loop body (thresh, power1, power2, power,  *)
(*    weather_ok, ok) are re-assigned by every iteration before they are   *)
(*    read, so they are put back to their unassigned value when an         *)
(*    iteration ends.                                                      *)
(***************************************************************************)
EXTENDS Integers, Sequences, FiniteSets, TLC

\* ------------------------------------------------------------------ bounds
\* number of calendar days a behaviour may span
MaxDay == 3
\* number of termination signals the environment may send
MaxSignals == 2

\* ------------------------------------------------------- program constants
threshold == 1400
interval == 10

None == "None"

\* <<minimum_on_time, maximum_on_time>>; <<20, 40>> is the shipped setting
OnTimes == {<<20, 40>>, <<30, 40>>, <<20, 10>>}

\* ow_appid: None disables the weather gate
AppIds == {None, "key"}

\* a line of the scaling file: a float literal (in thousandths), garbage
\* that float() rejects, or "nan", which float() accepts
Num(f) == [ok |-> TRUE, finite |-> TRUE, val |-> f]
Garbage == [ok |-> FALSE, finite |-> TRUE, val |-> 0]
NanLine == [ok |-> TRUE, finite |-> FALSE, val |-> 0]
ScalingFiles == { <<>>, <<Num(1000), Garbage, Num(500)>> }

\* the files the loader and the threshold are run against on their own:
\* every file of at most MaxLines lines over these four lines
MaxLines == 4
ScalingLines == { Num(500), Num(1500), Garbage, NanLine }
AllScalingFiles ==
    UNION { [1..n -> ScalingLines] : n \in 0..MaxLines }

\* a float: finite (in thousandths) or nan
Float(f) == [finite |-> TRUE, milli |-> f]
NaN == [finite |-> FALSE, milli |-> 0]

\* what read_holding_registers may return: None, or the two words read
RegisterReads == { <<>>, <<0, 700>>, <<0, 1400>>, <<0, 1500>> }

\* what the second meter's page may be: the request raises, the text does
\* not match the pattern, or the text carries "Leistung{m}600 W"
NoPage == [status |-> "error", watts |-> 0]
PlainPage == [status |-> "nomatch", watts |-> 0]
PowerPage(w) == [status |-> "match", watts |-> w]
SecondPages == { NoPage, PlainPage, PowerPage(600) }

\* Python objects that are either an int or a str of digits
IntObj(n) == [type |-> "int", val |-> n]
StrObj(n) == [type |-> "str", val |-> n]

\* ---------------------------------------------------- forecast documents
\* the current observation's timestamp of every document
Now == 100000

Doc(k, s, h) == [kind |-> k, dt |-> Now, sunset |-> s, hourly |-> h]
Hour(t, c) == [dt |-> t, clouds |-> c]

NoForecast == Doc("not_queried", 0, <<>>)
FailureKinds == {"transport_error", "unparsable", "no_cod", "cod_error",
                 "missing_field"}
FailedForecasts == { Doc(k, 0, <<>>) : k \in FailureKinds }

SunsetOffsets == {0 - 60, 2400, 2430, 2460, 3600, 3630, 3660, 7200}
HourOffsets == {0 - 3600, 0, 1800, 3600, 7200}
CloudValues == {0, 99, 100}
HourEntries == { Hour(Now + o, c) : o \in HourOffsets, c \in CloudValues }
HourlyLists == {<<>>} \cup { <<h>> : h \in HourEntries }
                 \cup { <<Hour(Now - 3600, 0), h>> : h \in HourEntries }
GoodForecasts == { Doc("ok", Now + s, h) : s \in SunsetOffsets, h \in HourlyLists }
AllForecasts == FailedForecasts \cup GoodForecasts

\* the documents the main loop is run against: a failed request, a clear
\* next hour, an overcast next hour, and a forecast that is all in the past
LoopForecasts ==
    { Doc("transport_error", 0, <<>>),
      Doc("ok", Now + 7200, <<Hour(Now + 1800, 0)>>),
      Doc("ok", Now + 7200, <<Hour(Now + 1800, 100)>>),
      Doc("ok", Now + 7200, <<Hour(Now - 3600, 0)>>) }

VARIABLES
    \* configuration (module-level settings, fixed after start)
    minimum_on_time, maximum_on_time, ow_appid, dry_run, scaling_factors_file,
    \* program state
    pc, scaling_factors, counter, day,
    thresh, power1, power2, power, weather_ok, ok,
    relay, uncaught,
    \* environment
    today, signals, interrupted,
    \* observers
    lastCall, onCalls, offCalls, exitedFrom, forecast, logged, run, onToday, engageDay,
    \* slept: the argument, in seconds, of the sleep() call that returned last
    \* pend: 0 - 1 while no date change awaits its reset, else the number of
    \*       iterations completed since the date changed without the counter
    \*       having been put back to 0
    slept, pend

config == <<minimum_on_time, maximum_on_time, ow_appid, dry_run, scaling_factors_file>>
locals == <<thresh, power1, power2, power, weather_ok, ok>>
observers == <<lastCall, onCalls, offCalls, exitedFrom, forecast, logged, run, onToday, engageDay>>
timing == <<slept, pend>>
vars == <<config, pc, scaling_factors, counter, day, locals, relay, uncaught,
          today, signals, interrupted, observers, timing>>

\* ------------------------------------------------------------ pure helpers
\* int(a / b) for b > 0: truncation toward zero
TruncDiv(a, b) == IF a >= 0 THEN a \div b ELSE 0 - ((0 - a) \div b)

periods == TruncDiv(maximum_on_time, minimum_on_time)

\* load_scaling_factors: the lines that parse, in file order; a line whose
\* parse was cut short by an exception raised inside the try is not appended
RECURSIVE LoadFrom(_, _, _)
LoadFrom(file, i, cut) ==
    IF i > Len(file) THEN <<>>
    ELSE IF file[i].ok /\ i \notin cut
         THEN <<IF file[i].finite THEN Float(file[i].val) ELSE NaN>>
                  \o LoadFrom(file, i + 1, cut)
         ELSE LoadFrom(file, i + 1, cut)

load_scaling_factors(file, cut) == LoadFrom(file, 1, cut)

\* scaling_factors[yday] of a 0-based list, 1 when the index is out of range
ScalingFactor(factors, yday) ==
    IF yday + 1 <= Len(factors) THEN factors[yday + 1] ELSE Float(1000)

\* int(threshold * scaling_factor): int() of nan raises ValueError, outside
\* the try
get_current_threshold(factors, yday) ==
    LET f == ScalingFactor(factors, yday) IN
    IF f.finite
    THEN [raised |-> FALSE, val |-> TruncDiv(threshold * f.milli, 1000)]
    ELSE [raised |-> TRUE, val |-> 0]

\* get_current_power
get_current_power(regs) == IF regs # <<>> THEN regs[2] ELSE 0

\* get_second_power: `requests` is imported only when ow_appid is set, so
\* without it the request line raises NameError, which the bare except eats
get_second_power(appid, page) ==
    IF appid = None THEN IntObj(0)
    ELSE IF page.status = "match" THEN StrObj(page.watts)
    ELSE IntObj(0)

\* the loop over json['hourly']
RECURSIVE NextHour(_, _, _)
NextHour(hourly, i, current_time) ==
    IF i > Len(hourly) THEN [found |-> "none", h |-> Hour(0, 0)]
    ELSE IF hourly[i].dt < current_time THEN NextHour(hourly, i + 1, current_time)
    ELSE IF current_time - hourly[i].dt < 3600
         THEN [found |-> "entry", h |-> hourly[i]]
         ELSE [found |-> "admit", h |-> Hour(0, 0)]

\* mutation: cloud cover of exactly 100 still admitted
Stable_CloudsInclusive(sundown, clouds, min_on) ==
    (sundown > 2 * min_on) /\ (clouds <= 100)

\* lines 217-219
Stable(sundown, clouds, min_on) == (sundown > 2 * min_on) /\ (clouds < 100)

\* mutation: the gate fails closed
WeatherOnError_Closed == FALSE

\* value returned when the except clause of get_weather_prediction runs
WeatherOnError == TRUE

get_weather_prediction(appid, min_on, doc) ==
    IF appid = None THEN TRUE
    ELSE IF doc.kind # "ok" THEN WeatherOnError
    ELSE LET nh == NextHour(doc.hourly, 1, doc.dt)
             sundown == TruncDiv(doc.sunset - doc.dt, 60)
         IN  CASE nh.found = "admit" -> TRUE
               [] nh.found = "none" -> WeatherOnError
               [] OTHER -> Stable(sundown, nh.h.clouds, min_on)

\* mutation: the cap compared with <= instead of <
Decision_CapOffByOne(p, t, w, c) == (p > t) /\ w /\ (c <= periods)

\* mutation: the surplus compared with >= instead of >
Decision_SurplusInclusive(p, t, w, c) == (p >= t) /\ w /\ (c < periods)

\* line 283
Decision(p, t, w, c) == (p > t) /\ w /\ (c < periods)

\* ------------------------------------------------------------------- Init
Init ==
    /\ \E t \in OnTimes : minimum_on_time = t[1] /\ maximum_on_time = t[2]
    /\ ow_appid \in AppIds
    /\ dry_run \in BOOLEAN
    /\ scaling_factors_file \in ScalingFiles
    /\ pc = "load"
    /\ scaling_factors = <<>>
    /\ counter = 0
    /\ day = 1
    /\ thresh = 0 /\ power1 = 0 /\ power2 = IntObj(0) /\ power = 0
    /\ weather_ok = TRUE /\ ok = FALSE
    /\ relay = IF dry_run THEN "absent" ELSE "off"
    /\ uncaught = "none"
    /\ today = 1 /\ signals = 0 /\ interrupted = {}
    /\ lastCall = "none" /\ onCalls = 0 /\ offCalls = 0 /\ exitedFrom = "none"
    /\ forecast = NoForecast /\ logged = <<>>
    /\ run = 0 /\ onToday = 0 /\ engageDay = 0
    /\ slept = 0 /\ pend = 0 - 1

\* ---------------------------------------------------------------- actions
\* lines 228-233 in a build whose dry_run is dr and whose relay goes from
\* r to rp
engageOn(dr, r, rp) ==
    /\ lastCall' = "engage"
    /\ onCalls' = onCalls + 1
    /\ offCalls' = offCalls
    /\ rp = IF dr THEN r ELSE "on"

\* mutation: relay.off() called without the dry_run guard
disengageOn_Unguarded(dr, r, rp) ==
    /\ lastCall' = "disengage"
    /\ onCalls' = onCalls
    /\ offCalls' = offCalls + 1
    /\ rp = "off"

\* lines 236-241 in a build whose dry_run is dr and whose relay goes from
\* r to rp
disengageOn(dr, r, rp) ==
    /\ lastCall' = "disengage"
    /\ onCalls' = onCalls
    /\ offCalls' = offCalls + 1
    /\ rp = IF dr THEN r ELSE "off"

engage == engageOn(dry_run, relay, relay')

disengage == disengageOn(dry_run, relay, relay')

ClearLocals ==
    /\ thresh' = 0 /\ power1' = 0 /\ power2' = IntObj(0) /\ power' = 0
    /\ weather_ok' = TRUE /\ ok' = FALSE
    /\ forecast' = NoForecast /\ logged' = <<>>
    /\ onCalls' = 0 /\ offCalls' = 0

\* lines 271-275
Startup ==
    /\ pc = "load"
    /\ scaling_factors' = load_scaling_factors(scaling_factors_file, interrupted)
    /\ counter' = 0
    /\ day' = today
    /\ pend' = 0 - 1
    /\ pc' = "threshold"
    /\ UNCHANGED <<config, slept, locals, relay, uncaught, today, signals, interrupted,
                   observers>>

\* line 278
GetCurrentThreshold ==
    /\ pc = "threshold"
    /\ LET t == get_current_threshold(scaling_factors, today) IN
         IF t.raised
         THEN thresh' = thresh /\ pc' = "terminated" /\ uncaught' = "ValueError"
         ELSE thresh' = t.val /\ pc' = "power1" /\ uncaught' = uncaught
    /\ UNCHANGED <<config, timing, scaling_factors, counter, day, power1, power2, power,
                   weather_ok, ok, relay, today, signals, interrupted,
                   observers>>

\* line 279
GetCurrentPower ==
    /\ pc = "power1"
    /\ \E regs \in RegisterReads : power1' = get_current_power(regs)
    /\ pc' = "power2"
    /\ UNCHANGED <<config, timing, scaling_factors, counter, day, thresh, power2, power,
                   weather_ok, ok, relay, uncaught, today, signals, interrupted,
                   observers>>

\* lines 280-281: int + str raises TypeError, which nothing catches
GetSecondPower ==
    /\ pc = "power2"
    /\ \E page \in SecondPages :
         LET p2 == get_second_power(ow_appid, page) IN
         /\ power2' = p2
         /\ IF p2.type = "int"
            THEN power' = power1 + p2.val /\ pc' = "weather" /\ uncaught' = uncaught
            ELSE power' = power /\ pc' = "terminated" /\ uncaught' = "TypeError"
    /\ UNCHANGED <<config, timing, scaling_factors, counter, day, thresh, power1,
                   weather_ok, ok, relay, today, signals, interrupted, observers>>

\* lines 282-283
WeatherStep(docs) ==
    /\ pc = "weather"
    /\ \E doc \in docs :
         LET d == IF ow_appid = None THEN NoForecast ELSE doc
             w == get_weather_prediction(ow_appid, minimum_on_time, d) IN
         /\ forecast' = d
         /\ weather_ok' = w
         /\ ok' = Decision(power, thresh, w, counter)
         /\ run' = IF run >= 0 /\ run <= periods /\ power > thresh /\ w
                   THEN run + 1 ELSE 0 - 1
    /\ pc' = "log"
    /\ UNCHANGED <<config, timing, scaling_factors, counter, day, thresh, power1, power2,
                   power, relay, uncaught, today, signals, interrupted,
                   lastCall, onCalls, offCalls, exitedFrom, logged, onToday, engageDay>>

CallWeather == WeatherStep(LoopForecasts)

\* mutation: the line is written only when debug is set
Log_DebugOnly ==
    /\ pc = "log"
    /\ pc' = "relay"
    /\ UNCHANGED <<config, timing, scaling_factors, counter, day, locals, relay, uncaught,
                   today, signals, interrupted, observers>>

\* mutation: the line always carries switch = 1
Log_AlwaysOne ==
    /\ pc = "log"
    /\ logged' = Append(logged, [power |-> power, power1 |-> power1,
                                 power2 |-> power2.val, threshold |-> thresh,
                                 switch |-> 1])
    /\ pc' = "relay"
    /\ UNCHANGED <<config, timing, scaling_factors, counter, day, locals, relay, uncaught,
                   today, signals, interrupted, lastCall, onCalls, offCalls, exitedFrom,
                   forecast, run, onToday, engageDay>>

\* line 284, the file can be opened and written
Log ==
    /\ pc = "log"
    /\ logged' = Append(logged, [power |-> power, power1 |-> power1,
                                 power2 |-> power2.val, threshold |-> thresh,
                                 switch |-> IF ok THEN 1 ELSE 0])
    /\ pc' = "relay"
    /\ UNCHANGED <<config, timing, scaling_factors, counter, day, locals, relay, uncaught,
                   today, signals, interrupted, lastCall, onCalls, offCalls, exitedFrom,
                   forecast, run, onToday, engageDay>>

\* line 284, open() or write() raises OSError, which nothing catches
LogFails ==
    /\ pc = "log"
    /\ pc' = "terminated"
    /\ uncaught' = "OSError"
    /\ UNCHANGED <<config, timing, scaling_factors, counter, day, locals, relay,
                   today, signals, interrupted, observers>>

\* lines 285-286
Engage ==
    /\ pc = "relay"
    /\ ok
    /\ engage
    /\ engageDay' = today
    /\ pc' = "on_sleep"
    /\ UNCHANGED <<config, timing, scaling_factors, counter, day, locals, uncaught,
                   today, signals, interrupted, exitedFrom, forecast, logged, run,
                   onToday>>

\* lines 289-290
Disengage ==
    /\ pc = "relay"
    /\ ~ok
    /\ disengage
    /\ pc' = "off_sleep"
    /\ UNCHANGED <<config, timing, scaling_factors, counter, day, locals, uncaught,
                   today, signals, interrupted, exitedFrom, forecast, logged, run,
                   onToday, engageDay>>

\* pend after one more completed iteration; reset tells whether the counter
\* is 0 after it (the count stops one past the cap)
CycleDone(pd, reset) ==
    IF pd < 0 \/ reset THEN 0 - 1
    ELSE IF pd > periods THEN pd
    ELSE pd + 1

\* mutation: a dwell counts as two periods
OnSleepEnd_CountsTwice ==
    /\ pc = "on_sleep"
    /\ slept' = 60 * minimum_on_time
    /\ counter' = counter + 2
    /\ onToday' = IF engageDay = today THEN onToday + 1 ELSE onToday
    /\ pend' = CycleDone(pend, FALSE)
    /\ ClearLocals
    /\ pc' = "threshold"
    /\ UNCHANGED <<config, scaling_factors, day, relay, uncaught, today, signals,
                   interrupted, lastCall, exitedFrom, run, engageDay>>

\* mutation: the ON branch sleeps the polling interval
OnSleepEnd_ShortDwell ==
    /\ pc = "on_sleep"
    /\ slept' = 60 * interval
    /\ counter' = counter + 1
    /\ onToday' = IF engageDay = today THEN onToday + 1 ELSE onToday
    /\ pend' = CycleDone(pend, FALSE)
    /\ ClearLocals
    /\ pc' = "threshold"
    /\ UNCHANGED <<config, scaling_factors, day, relay, uncaught, today, signals,
                   interrupted, lastCall, exitedFrom, run, engageDay>>

\* lines 287-288: the dwell ends
OnSleepEnd ==
    /\ pc = "on_sleep"
    /\ slept' = 60 * minimum_on_time
    /\ counter' = counter + 1
    /\ onToday' = IF engageDay = today THEN onToday + 1 ELSE onToday
    /\ pend' = CycleDone(pend, FALSE)
    /\ ClearLocals
    /\ pc' = "threshold"
    /\ UNCHANGED <<config, scaling_factors, day, relay, uncaught, today, signals,
                   interrupted, lastCall, exitedFrom, run, engageDay>>

\* mutation: the OFF branch has no date check
OffSleepEnd_NoDateCheck ==
    /\ pc = "off_sleep"
    /\ slept' = 60 * interval
    /\ counter' = counter /\ day' = day
    /\ pend' = CycleDone(pend, FALSE)
    /\ ClearLocals
    /\ pc' = "threshold"
    /\ UNCHANGED <<config, scaling_factors, relay, uncaught, today, signals,
                   interrupted, lastCall, exitedFrom, run, onToday, engageDay>>

\* mutation: the date check records the new date but keeps the counter
OffSleepEnd_KeepsCounter ==
    /\ pc = "off_sleep"
    /\ slept' = 60 * interval
    /\ counter' = counter
    /\ day' = today
    /\ pend' = CycleDone(pend, counter' = 0)
    /\ ClearLocals
    /\ pc' = "threshold"
    /\ UNCHANGED <<config, scaling_factors, relay, uncaught, today, signals,
                   interrupted, lastCall, exitedFrom, run, onToday, engageDay>>

\* lines 291-295: the interval sleep ends, then the date check
OffSleepEnd ==
    /\ pc = "off_sleep"
    /\ slept' = 60 * interval
    /\ IF day # today
       THEN counter' = 0 /\ day' = today
       ELSE counter' = counter /\ day' = day
    /\ pend' = CycleDone(pend, counter' = 0)
    /\ ClearLocals
    /\ pc' = "threshold"
    /\ UNCHANGED <<config, scaling_factors, relay, uncaught, today, signals,
                   interrupted, lastCall, exitedFrom, run, onToday, engageDay>>

\* mutation: the handler switches the relay off but does not exit
ShutdownExit_Returns ==
    /\ pc # "terminated"
    /\ signals < MaxSignals
    /\ signals' = signals + 1
    /\ disengage
    /\ UNCHANGED <<config, timing, pc, scaling_factors, counter, day, locals, uncaught,
                   today, interrupted, exitedFrom, forecast, logged, run, onToday,
                   engageDay>>

\* lines 262-264 run at a point from which SystemExit reaches the top level
ShutdownExit ==
    /\ pc # "terminated"
    /\ signals < MaxSignals
    /\ signals' = signals + 1
    /\ disengage
    /\ pc' = "terminated"
    /\ uncaught' = "SystemExit"
    /\ exitedFrom' = pc
    /\ UNCHANGED <<config, timing, scaling_factors, counter, day, locals, today,
                   interrupted, forecast, logged, run, onToday, engageDay>>

\* lines 262-264 run inside the try of load_scaling_factors (lines 127-130):
\* the bare except eats SystemExit, the line being parsed is not appended
ShutdownInLoad ==
    /\ pc = "load"
    /\ signals < MaxSignals
    /\ signals' = signals + 1
    /\ disengage
    /\ \E i \in 1..Len(scaling_factors_file) :
         /\ i \notin interrupted
         /\ interrupted' = interrupted \cup {i}
    /\ UNCHANGED <<config, timing, pc, scaling_factors, counter, day, locals, uncaught,
                   today, exitedFrom, forecast, logged, run, onToday, engageDay>>

\* lines 262-264 run inside the try of get_current_threshold (lines 174-177):
\* the bare except eats SystemExit and sets the factor to 1
ShutdownInThreshold ==
    /\ pc = "threshold"
    /\ signals < MaxSignals
    /\ signals' = signals + 1
    /\ disengage
    /\ thresh' = TruncDiv(threshold * 1000, 1000)
    /\ pc' = "power1"
    /\ UNCHANGED <<config, timing, scaling_factors, counter, day, power1, power2, power,
                   weather_ok, ok, uncaught, today, interrupted, exitedFrom, forecast,
                   logged, run, onToday, engageDay>>

\* lines 262-264 run inside the try of get_second_power (lines 161-168):
\* the bare except eats SystemExit and the function returns 0
ShutdownInSecondPower ==
    /\ pc = "power2"
    /\ signals < MaxSignals
    /\ signals' = signals + 1
    /\ disengage
    /\ power2' = IntObj(0)
    /\ power' = power1 + 0
    /\ pc' = "weather"
    /\ UNCHANGED <<config, timing, scaling_factors, counter, day, thresh, power1,
                   weather_ok, ok, uncaught, today, interrupted, exitedFrom, forecast,
                   logged, run, onToday, engageDay>>

\* the calendar date changes
Midnight ==
    /\ pc # "terminated"
    /\ today < MaxDay
    /\ today' = today + 1
    /\ onToday' = 0
    /\ run' = 0 - 1
    /\ pend' = IF pend < 0 THEN 0 ELSE pend
    /\ UNCHANGED <<config, slept, pc, scaling_factors, counter, day, locals, relay,
                   uncaught, signals, interrupted, lastCall, onCalls, offCalls, exitedFrom,
                   forecast, logged, engageDay>>

Next ==
    \/ Startup
    \/ GetCurrentThreshold
    \/ GetCurrentPower
    \/ GetSecondPower
    \/ CallWeather
    \/ Log
    \/ LogFails
    \/ Engage
    \/ Disengage
    \/ OnSleepEnd
    \/ OffSleepEnd
    \/ ShutdownExit
    \/ ShutdownInLoad
    \/ ShutdownInThreshold
    \/ ShutdownInSecondPower
    \/ Midnight

Spec == Init /\ [][Next]_vars

\* --------------------------------------------- the loop without signals
\* the statements of the program: each is executed once control reaches it
LoopStep ==
    \/ Startup
    \/ GetCurrentThreshold
    \/ GetCurrentPower
    \/ GetSecondPower
    \/ CallWeather
    \/ Log
    \/ Engage
    \/ Disengage
    \/ OnSleepEnd
    \/ OffSleepEnd

NextLive == LoopStep \/ LogFails \/ Midnight

\* a single-threaded program: the statement control has reached is executed
SpecLive == Init /\ [][NextLive]_vars /\ WF_vars(LoopStep)

\* ------------------------------------------- the weather gate on its own
\* the loop has reached line 282 of its first iteration on some reading
InitWeather ==
    /\ \E t \in OnTimes : minimum_on_time = t[1] /\ maximum_on_time = t[2]
    /\ ow_appid \in AppIds
    /\ dry_run \in BOOLEAN
    /\ scaling_factors_file = <<>>
    /\ pc = "weather"
    /\ scaling_factors = <<>>
    /\ counter \in 0..periods
    /\ day = 1
    /\ thresh = get_current_threshold(<<>>, 1).val
    /\ \E regs \in RegisterReads : power1 = get_current_power(regs)
    /\ power2 = IntObj(0) /\ power = power1
    /\ weather_ok = TRUE /\ ok = FALSE
    /\ relay = IF dry_run THEN "absent" ELSE "off"
    /\ uncaught = "none"
    /\ today = 1 /\ signals = 0 /\ interrupted = {}
    /\ lastCall = "none" /\ onCalls = 0 /\ offCalls = 0 /\ exitedFrom = "none"
    /\ forecast = NoForecast /\ logged = <<>>
    /\ run = 0 /\ onToday = 0 /\ engageDay = 0
    /\ slept = 0 /\ pend = 0 - 1

QueryWeather == WeatherStep(AllForecasts)

NextWeather == QueryWeather

SpecWeather == InitWeather /\ [][NextWeather]_vars

\* ----------------------------------------------------------------- claims
\* the iteration has computed its decision
Decided == pc \in {"log", "relay", "on_sleep", "off_sleep"}

\* C1: from the start, with no date change, the k-th of a run of eligible
\* cycles (power > thresh, weather admitted) engages and brings the counter
\* to k while k <= periods; cycle number periods + 1 disengages and leaves
\* the counter at periods.
C1_CapAfterPeriods ==
    run >= 1 =>
        /\ pc \in {"log", "relay"} => (ok <=> run <= periods)
        /\ pc = "on_sleep" =>
              run <= periods /\ counter = run - 1 /\ lastCall = "engage"
        /\ pc = "off_sleep" =>
              run = periods + 1 /\ counter = periods /\ lastCall = "disengage"
        /\ pc \in {"threshold", "power1", "power2", "weather"} =>
              counter = IF run <= periods THEN run ELSE periods

C1_Witness ==
    /\ periods >= 2
    /\ run = periods + 1
    /\ pc = "off_sleep"
    /\ power > thresh /\ weather_ok
    /\ counter = periods
    /\ lastCall = "disengage"

\* C2: a termination signal during the ON dwell makes the handler call
\* disengage once and ends the process; the counter is not incremented and
\* nothing runs afterwards.
C2_SignalInDwell ==
    [][ /\ (pc = "on_sleep" /\ signals' # signals) =>
              /\ pc' = "terminated"
              /\ uncaught' = "SystemExit"
              /\ lastCall' = "disengage"
              /\ offCalls' = offCalls + 1
              /\ counter' = counter
              /\ relay' # "on"
        /\ pc = "terminated" => UNCHANGED vars ]_vars

C2_Witness ==
    /\ pc = "terminated"
    /\ exitedFrom = "on_sleep"
    /\ uncaught = "SystemExit"
    /\ lastCall = "disengage"
    /\ ok

\* C3: once a termination signal has been received the process has exited
\* through the handler with disengage as the last relay call; the exit is
\* never swallowed and the loop does not go on.
C3_SignalAlwaysExits ==
    signals > 0 =>
        /\ pc = "terminated"
        /\ uncaught = "SystemExit"
        /\ lastCall = "disengage"

\* C4: the number of ON periods (engage followed by a complete dwell) that
\* lie within one calendar day never exceeds periods (stated for runs that
\* receive no signal).
C4_CalendarDayCap == signals = 0 => onToday <= periods

\* C5: the step that ends an OFF-branch sleep sets counter to 0 and day to
\* the date read when that date differs from day, and leaves both alone
\* otherwise; the ON branch never lowers the counter and never changes day.
C5_DailyReset ==
    [][ /\ (pc = "off_sleep" /\ pc' = "threshold") =>
              IF today # day
              THEN counter' = 0 /\ day' = today
              ELSE counter' = counter /\ day' = day
        /\ ((pc = "relay" /\ ok) \/ pc = "on_sleep") =>
              /\ day' = day
              /\ counter' >= counter
        /\ (pc = "on_sleep" /\ pc' = "threshold") => counter' = counter + 1
      ]_vars

C5_Witness ==
    /\ pc = "threshold"
    /\ lastCall = "disengage"
    /\ engageDay >= 1 /\ engageDay < day
    /\ day = today
    /\ counter = 0

\* C6: a cycle whose power is not strictly greater than the threshold has
\* ok false, makes no call of engage, never enters the ON dwell and never
\* increments the counter; its relay action is disengage.
C6_NoSurplusNoEngage ==
    [][ (Decided /\ power <= thresh) =>
            /\ ~ok
            /\ onCalls' = onCalls
            /\ pc' # "on_sleep"
            /\ counter' <= counter
            /\ (pc = "relay" /\ pc' \notin {"relay", "terminated"}) =>
                  pc' = "off_sleep" /\ lastCall' = "disengage"
      ]_vars

C6_Witness ==
    /\ pc = "off_sleep"
    /\ power = thresh /\ power > 0
    /\ weather_ok
    /\ counter < periods
    /\ lastCall = "disengage"

\* C7: whatever the two reads return, the cycle is not aborted and the
\* power used in the decision is the integer sum of the successful reads.
C7_AggregateIsSum ==
    /\ uncaught # "TypeError"
    /\ pc \in {"weather", "log", "relay", "on_sleep", "off_sleep"} =>
          power = power1 + power2.val

\* the forecast has no entry at or after the current observation
NoUsableEntry(doc) ==
    /\ doc.kind = "ok"
    /\ \A i \in 1..Len(doc.hourly) : doc.hourly[i].dt < doc.dt

\* C8: with the gate disabled the forecast is not queried and the gate
\* admits; with the gate enabled a failed query, or a forecast without a
\* usable entry, admits, so the cycle is decided by surplus and cap alone.
C8_FailOpen ==
    pc = "log" =>
        /\ ow_appid = None => weather_ok /\ forecast = NoForecast
        /\ (forecast.kind \in FailureKinds \/ NoUsableEntry(forecast)) =>
              /\ weather_ok
              /\ (power > thresh /\ counter < periods) => ok

C8_Witness ==
    /\ pc = "log"
    /\ ow_appid # None
    /\ forecast.kind = "unparsable"
    /\ power > thresh /\ counter < periods
    /\ ok

\* the forecast entry the gate's rule is applied to
FoundEntry == NextHour(forecast.hourly, 1, forecast.dt)
RuleApplied ==
    /\ pc = "log"
    /\ ow_appid # None
    /\ forecast.kind = "ok"
    /\ FoundEntry.found = "entry"

C10_LogFailureKeepsLoop ==
    ~(pc = "terminated" /\ uncaught = "OSError" /\ lastCall = "engage")

\* --------------------------- the scaling table and the threshold on their own
\* the program starts on some day of the year with some scaling file
InitScaling ==
    /\ minimum_on_time = 20 /\ maximum_on_time = 40
    /\ ow_appid = None
    /\ dry_run \in BOOLEAN
    /\ scaling_factors_file \in AllScalingFiles
    /\ pc = "load"
    /\ scaling_factors = <<>>
    /\ counter = 0
    /\ today \in 1..MaxDay
    /\ day = today
    /\ thresh = 0 /\ power1 = 0 /\ power2 = IntObj(0) /\ power = 0
    /\ weather_ok = TRUE /\ ok = FALSE
    /\ relay = IF dry_run THEN "absent" ELSE "off"
    /\ uncaught = "none"
    /\ signals = 0 /\ interrupted = {}
    /\ lastCall = "none" /\ onCalls = 0 /\ offCalls = 0 /\ exitedFrom = "none"
    /\ forecast = NoForecast /\ logged = <<>>
    /\ run = 0 /\ onToday = 0 /\ engageDay = 0
    /\ slept = 0 /\ pend = 0 - 1

NextScaling ==
    \/ Startup
    \/ GetCurrentThreshold

SpecScaling == InitScaling /\ [][NextScaling]_vars

\* the line of the file that list index yday (0-based) stands for
OwnLine(yday) == yday + 1
HasOwnLine(yday) == OwnLine(yday) <= Len(scaling_factors_file)

\* C11: get_current_threshold never raises; it returns the base threshold
\* times the day's factor, truncated, and the base threshold itself for a
\* day without an entry in the loaded table.
C11_ThresholdNeverRaises ==
    /\ uncaught # "ValueError"
    /\ pc = "power1" =>
          /\ thresh = TruncDiv(threshold * ScalingFactor(scaling_factors, today).milli, 1000)
          /\ today + 1 > Len(scaling_factors) => thresh = threshold

\* C12: a malformed line affects its own day only: that day gets factor 1,
\* and every day whose own line is well formed gets the factor written on
\* that line.
C12_MalformedLineIsLocal ==
    (pc = "power1" /\ (HasOwnLine(today) => scaling_factors_file[OwnLine(today)].finite)) =>
        thresh = IF HasOwnLine(today) /\ scaling_factors_file[OwnLine(today)].ok
                 THEN TruncDiv(threshold * scaling_factors_file[OwnLine(today)].val, 1000)
                 ELSE threshold

\* the relay of a build after a sequence of calls whose last one is call:
\* a dry run has no relay, a hardware build's relay follows the last call
RelayOf(dr, call) ==
    IF dr THEN "absent" ELSE IF call = "engage" THEN "on" ELSE "off"

LoopOrder ==
    { <<"load", "threshold">>, <<"threshold", "power1">>, <<"power1", "power2">>,
      <<"power2", "weather">>, <<"weather", "log">>, <<"log", "relay">>,
      <<"relay", "on_sleep">>, <<"relay", "off_sleep">>,
      <<"on_sleep", "threshold">>, <<"off_sleep", "threshold">> }

\* the main loop's own relay call (lines 286, 290), not the handler's
LoopRelayCall == pc = "relay" /\ pc' \in {"on_sleep", "off_sleep"}

\* C14 as stated: the relay side effect of a cycle happens before that
\* cycle's log line is appended, so when the line is appended the cycle's
\* relay call has been made.
C14_RelayBeforeLog ==
    [][ Len(logged') > Len(logged) => (onCalls + offCalls >= 1) ]_vars

\* C14 amended: an iteration goes through threshold, reads, weather query
\* and decision, log append, relay side effect, sleep, in this order; the
\* log line is appended before the relay side effect.
C14_LogBeforeRelay ==
    [][ /\ (pc' # pc /\ pc' # "terminated") => <<pc, pc'>> \in LoopOrder
        /\ Len(logged') > Len(logged) => (pc = "log" /\ pc' = "relay")
        /\ LoopRelayCall => (Len(logged) = 1 /\ logged' = logged)
      ]_vars

C14_Witness ==
    /\ pc = "relay"
    /\ Len(logged) = 1
    /\ onCalls = 0 /\ offCalls = 0
    /\ lastCall = "none"

\* C17: a cycle appends at most one log line; when it makes its relay call
\* exactly one line has been appended, whose bit is 1 if and only if the
\* call is engage and 0 if and only if it is disengage, and whose power and
\* threshold are the values the decision was computed from.
C17_LogAgreesWithAction ==
    /\ [](Len(logged) <= 1)
    /\ [][ LoopRelayCall =>
             /\ Len(logged) = 1
             /\ logged[1].switch = 1 <=> (lastCall' = "engage" /\ onCalls' = onCalls + 1)
             /\ logged[1].switch = 0 <=> (lastCall' = "disengage" /\ offCalls' = offCalls + 1)
             /\ logged[1].power = power /\ logged[1].threshold = thresh
             /\ ok = Decision(logged[1].power, logged[1].threshold, weather_ok, counter)
         ]_vars

C17_Witness ==
    /\ pc = "on_sleep"
    /\ Len(logged) = 1
    /\ logged[1].switch = 1
    /\ logged[1].power > logged[1].threshold
    /\ lastCall = "engage"

\* a step that is not the delivery of a termination signal
NoSignalStep == signals' = signals

\* C15: asymmetric dwell and minimum on-time.  Apart from the signal path, a
\* cycle that invoked engage goes into the ON sleep, from which nothing happens
\* but the end of a sleep of exactly 60 * minimum_on_time seconds: no disengage
\* call, no decision, and the counter is incremented at that moment and at no
\* other; a cycle that invoked disengage goes into the OFF sleep, which lasts
\* exactly 60 * interval seconds; and the loop switches the relay off only in
\* a cycle whose decision was negative.
C15_AsymmetricDwell ==
    [][ NoSignalStep =>
          /\ (LoopRelayCall /\ onCalls' = onCalls + 1) => pc' = "on_sleep"
          /\ (LoopRelayCall /\ offCalls' = offCalls + 1) => pc' = "off_sleep"
          /\ pc = "on_sleep" =>
                /\ pc' \in {"on_sleep", "threshold"}
                /\ offCalls' # offCalls + 1
                /\ relay' = relay
                /\ ok' = ok \/ pc' = "threshold"
                /\ pc' = "threshold" =>
                      (slept' = 60 * minimum_on_time /\ counter' = counter + 1)
                /\ pc' = "on_sleep" => (counter' = counter /\ slept' = slept)
          /\ counter' = counter + 1 => (pc = "on_sleep" /\ pc' = "threshold")
          /\ (pc = "off_sleep" /\ pc' = "threshold") => slept' = 60 * interval
          /\ (pc = "off_sleep" /\ pc' # "threshold") => pc' = "off_sleep"
          /\ (pc = "weather" /\ pc' = "log" /\ signals = 0) =>
                /\ lastCall = "engage" => slept = 60 * minimum_on_time
                /\ lastCall = "disengage" => slept = 60 * interval
          /\ offCalls' = offCalls + 1 => (pc = "relay" /\ ~ok)
          /\ (relay = "on" /\ relay' = "off") => (pc = "relay" /\ ~ok)
      ]_vars

\* an ON dwell has just ended with the relay still on
C15_Witness ==
    /\ pc = "threshold" /\ slept = 60 * minimum_on_time
    /\ counter >= 1 /\ relay = "on" /\ signals = 0


\* index of the first hourly entry that is not in the past, 0 when there is none
RECURSIVE FirstAhead(_, _, _)
FirstAhead(hourly, i, current_time) ==
    IF i > Len(hourly) THEN 0
    ELSE IF hourly[i].dt >= current_time THEN i
    ELSE FirstAhead(hourly, i + 1, current_time)

\* C16: the cloud-cover test uses the first hourly entry that is not in the
\* past and less than 3600 seconds ahead of the current observation; when all
\* entries are in the past, or the first one that is not is an hour or more
\* ahead, the gate admits without applying the sundown/cloud rule.
C16_NextHourWithinOneHour ==
    (pc = "log" /\ ow_appid # None /\ forecast.kind = "ok") =>
        LET i == FirstAhead(forecast.hourly, 1, forecast.dt)
        IN  IF i = 0 \/ forecast.hourly[i].dt - forecast.dt >= 3600
            THEN weather_ok
            ELSE weather_ok <=>
                    Stable(TruncDiv(forecast.sunset - forecast.dt, 60),
                           forecast.hourly[i].clouds, minimum_on_time)


\* C18: the counter stays within 0..periods; it changes only by +1 when an
\* ON dwell ends or by a reset to 0 in the date check of the OFF branch; and
\* with periods = 0 engage is never invoked.
C18_CounterBounded ==
    /\ [](/\ 0 <= counter /\ counter <= periods
          /\ periods = 0 => (onCalls = 0 /\ lastCall # "engage" /\ relay # "on"))
    /\ [][ /\ counter' # counter =>
                \/ pc = "on_sleep" /\ pc' = "threshold" /\ counter' = counter + 1
                \/ /\ pc = "off_sleep" /\ pc' = "threshold"
                   /\ day # today /\ counter' = 0
           /\ periods = 0 => onCalls' # onCalls + 1
       ]_vars

\* the cap is reached while surplus and weather would allow another period
C18_Witness ==
    /\ pc = "off_sleep" /\ periods >= 1 /\ counter = periods
    /\ power > thresh /\ weather_ok /\ ~ok /\ lastCall = "disengage"


\* C19: the cap cannot block the load forever.  Without signals, a date
\* change is followed by the reset of the counter within periods + 1
\* iterations: an iteration that finds counter = periods decides OFF, every
\* OFF iteration ends with the date check, and the check resets the counter
\* when the date has changed; unless the program crashes the reset does
\* happen, and with the counter at 0 an iteration with surplus and good
\* weather engages.
C19_NoLockout ==
    /\ [](pend <= periods)
    /\ []((pc \in {"log", "relay"} /\ counter = periods) => ~ok)
    /\ []((pc \in {"log", "relay"} /\ counter = 0 /\ periods >= 1
              /\ power > thresh /\ weather_ok) => ok)
    /\ [][ (pc = "off_sleep" /\ pc' = "threshold") =>
              (day' = today /\ (day # today => counter' = 0)) ]_vars
    /\ (pend >= 0) ~> (pend < 0 \/ uncaught # "none")

\* the date has changed, the cap was then used up, and the iteration that
\* found the cap reached is about to run the date check
C19_Witness ==
    /\ pc = "off_sleep" /\ day # today
    /\ periods >= 1 /\ counter = periods /\ pend = periods
    /\ power > thresh /\ weather_ok /\ ~ok
    /\ uncaught = "none"

====
